---------------------------- MODULE Spec2Model ----------------------------
(***************************************************************************)
(* Model of STSTokenManager (src/STSTokenManager.py): a manager that keeps *)
(* one credential record in memory, seeded from a JSON cache file, serves  *)
(* it while it is valid and otherwise fetches a new one from the instance  *)
(* metadata service with three blocking HTTP requests.                     *)
(*                                                                         *)
(* Strings that the program parses (the Expiration text) are sequences of  *)
(* one-character strings, so that strptime is modelled by what it scans.   *)
(* A dict is a function from a set of keys to such strings.  The cache     *)
(* file's text is the sequence of chunks json.dump writes.                 *)
(***************************************************************************)
EXTENDS Integers, Sequences, FiniteSets, TLC

\* The clock runs over 0 .. MaxNow seconds since the epoch.
MaxNow == 2

\* buffer_time, the safety margin of the validity check, in seconds.
buffer_time == 900

\* token_ttl, the time-to-live asked for the IMDSv2 token, in seconds.
token_ttl == 21600

(***************************************************************************)
(* Text.                                                                   *)
(***************************************************************************)
DigitChars == <<"0", "1", "2", "3", "4", "5", "6", "7", "8", "9">>

IsDigit(c) == c \in {"0", "1", "2", "3", "4", "5", "6", "7", "8", "9"}

DigitVal(c) ==
    CASE c = "0" -> 0 [] c = "1" -> 1 [] c = "2" -> 2 [] c = "3" -> 3
      [] c = "4" -> 4 [] c = "5" -> 5 [] c = "6" -> 6 [] c = "7" -> 7
      [] c = "8" -> 8 [] c = "9" -> 9

\* int() of the digits s[p] .. s[q-1].
RECURSIVE IntOf(_, _, _)
IntOf(s, p, q) ==
    IF q <= p THEN 0 ELSE IntOf(s, p, q - 1) * 10 + DigitVal(s[q - 1])

AllDigits(s, p, q) == q - 1 <= Len(s) /\ \A i \in p..(q - 1) : IsDigit(s[i])

\* The text of a number n written with two digits, and with four.
Pad2(n) == <<DigitChars[(n \div 10) + 1], DigitChars[(n % 10) + 1]>>

Pad4(n) == Pad2(n \div 100) \o Pad2(n % 100)

\* A timestamp text in the form YYYY-MM-DDTHH:MM:SSZ, as the metadata
\* service writes the Expiration of a record.
IsoText(Y, Mo, D, H, Mi, S) ==
    Pad4(Y) \o <<"-">> \o Pad2(Mo) \o <<"-">> \o Pad2(D) \o <<"T">> \o
    Pad2(H) \o <<":">> \o Pad2(Mi) \o <<":">> \o Pad2(S) \o <<"Z">>

(***************************************************************************)
(* datetime.strptime(text, '%Y-%m-%dT%H:%M:%SZ') and .timestamp().         *)
(***************************************************************************)
\* The regular expression of one directive: whether a run of `width` digits
\* of value `val` matches one of its alternatives.
DirectiveMatches(d, width, val) ==
    CASE d = "Y" -> width = 4
      [] d = "m" -> (width = 2 /\ val \in 1..12) \/ (width = 1 /\ val \in 1..9)
      [] d = "d" -> (width = 2 /\ val \in 1..31) \/ (width = 1 /\ val \in 1..9)
      [] d = "H" -> (width = 2 /\ val \in 0..23) \/ (width = 1)
      [] d = "M" -> (width = 2 /\ val \in 0..59) \/ (width = 1)
      [] d = "S" -> (width = 2 /\ val \in 0..61) \/ (width = 1)

\* The positions at which a match of directive d that starts at p can end.
DirectiveEnds(s, p, d) ==
    {q \in (IF d = "Y" THEN {p + 4} ELSE {p + 1, p + 2}) :
        AllDigits(s, p, q) /\ DirectiveMatches(d, q - p, IntOf(s, p, q))}

\* The position after the literal character c at p, if it is there.
LiteralEnds(s, p, c) == IF p <= Len(s) /\ s[p] = c THEN {p + 1} ELSE {}

\* The groups of every match of the whole format that ends at the end of
\* the text ("unconverted data remains" otherwise).
StrptimeMatches(s) ==
    UNION {UNION {UNION {UNION {UNION {
      {<<IntOf(s, 1, q1), IntOf(s, q1 + 1, q2), IntOf(s, q2 + 1, q3),
         IntOf(s, q3 + 1, q4), IntOf(s, q4 + 1, q5), IntOf(s, q5 + 1, q6)>> :
          q6 \in {q \in DirectiveEnds(s, q5 + 1, "S") :
                     LiteralEnds(s, q, "Z") = {Len(s) + 1}}}
      : q5 \in {q \in DirectiveEnds(s, q4 + 1, "M") : LiteralEnds(s, q, ":") # {}}}
      : q4 \in {q \in DirectiveEnds(s, q3 + 1, "H") : LiteralEnds(s, q, ":") # {}}}
      : q3 \in {q \in DirectiveEnds(s, q2 + 1, "d") : LiteralEnds(s, q, "T") # {}}}
      : q2 \in {q \in DirectiveEnds(s, q1 + 1, "m") : LiteralEnds(s, q, "-") # {}}}
      : q1 \in {q \in DirectiveEnds(s, 1, "Y") : LiteralEnds(s, q, "-") # {}}}

IsLeap(y) == y % 4 = 0 /\ (y % 100 # 0 \/ y % 400 = 0)

DaysInMonth(y, m) ==
    IF m = 2 THEN (IF IsLeap(y) THEN 29 ELSE 28)
    ELSE IF m \in {4, 6, 9, 11} THEN 30 ELSE 31

RECURSIVE DaysBeforeMonth(_, _)
DaysBeforeMonth(y, m) ==
    IF m <= 1 THEN 0 ELSE DaysBeforeMonth(y, m - 1) + DaysInMonth(y, m - 1)

DaysBeforeYear(y) ==
    (y - 1) * 365 + ((y - 1) \div 4) - ((y - 1) \div 100) + ((y - 1) \div 400)

\* date.toordinal(): day 1 is 0001-01-01.
Ymd2Ord(y, m, d) == DaysBeforeYear(y) + DaysBeforeMonth(y, m) + d

\* The datetime constructor accepts these fields.
DatetimeOk(g) ==
    /\ g[1] \in 1..9999
    /\ g[2] \in 1..12
    /\ g[3] \in 1..DaysInMonth(g[1], g[2])
    /\ g[4] \in 0..23
    /\ g[5] \in 0..59
    /\ g[6] \in 0..59

\* strptime: the fields of the text, or ValueError when the text does not
\* match the format or names no datetime.
strptime(s) ==
    LET ms == StrptimeMatches(s) IN
    IF ms = {} THEN [exc |-> "ValueError", val |-> <<>>]
    ELSE LET g == CHOOSE m \in ms : TRUE IN
         IF DatetimeOk(g) THEN [exc |-> "none", val |-> g]
         ELSE [exc |-> "ValueError", val |-> <<>>]

\* .replace(tzinfo=timezone.utc).timestamp(): seconds since 1970-01-01T00:00:00Z.
timestamp(g) ==
    (Ymd2Ord(g[1], g[2], g[3]) - Ymd2Ord(1970, 1, 1)) * 86400
        + g[4] * 3600 + g[5] * 60 + g[6]


(***************************************************************************)
(* Dicts and JSON.                                                         *)
(***************************************************************************)
EmptyDict == [k \in {} |-> <<>>]

\* The keys a JSON object of this model can have, in the order json.dump
\* writes them.
KeyOrder == <<"Code", "AccessKeyId", "SecretAccessKey", "Token", "Expiration">>

Chunk(t, k, v) == [t |-> t, k |-> k, v |-> v]

\* A dump that writes the five credential fields and leaves out "Code".
json_dump_no_code(d) ==
    LET keys == SelectSeq(Tail(KeyOrder), LAMBDA k : k \in DOMAIN d) IN
    <<Chunk("{", "", <<>>)>>
        \o [i \in 1..Len(keys) |-> Chunk("pair", keys[i], d[keys[i]])]
        \o <<Chunk("}", "", <<>>)>>

\* json.dump(d, f): the chunks written to f, one after the other.
json_dump(d) ==
    LET keys == SelectSeq(KeyOrder, LAMBDA k : k \in DOMAIN d) IN
    <<Chunk("{", "", <<>>)>>
        \o [i \in 1..Len(keys) |-> Chunk("pair", keys[i], d[keys[i]])]
        \o <<Chunk("}", "", <<>>)>>

\* A reading of a text that takes the pairs up to the first chunk that is
\* not a pair, whether or not the object is closed there.
json_load_lenient(text) ==
    IF Len(text) >= 1 /\ text[1].t = "{"
    THEN LET stop == IF \E i \in 2..Len(text) : text[i].t # "pair"
                     THEN CHOOSE i \in 2..Len(text) :
                              /\ text[i].t # "pair"
                              /\ \A j \in 2..(i - 1) : text[j].t = "pair"
                     ELSE Len(text) + 1
             ks == {text[i].k : i \in 2..(stop - 1)}
             last(k) == CHOOSE i \in 2..(stop - 1) :
                            /\ text[i].k = k
                            /\ \A j \in (i + 1)..(stop - 1) : text[j].k # k
         IN  [exc |-> "none", val |-> [k \in ks |-> text[last(k)].v]]
    ELSE [exc |-> "JSONDecodeError", val |-> EmptyDict]

\* json.load(f) on a text: the object it denotes (of a repeated key the last
\* value), or JSONDecodeError when the text is not a complete object.
json_load(text) ==
    IF /\ Len(text) >= 2
       /\ text[1].t = "{"
       /\ text[Len(text)].t = "}"
       /\ \A i \in 2..(Len(text) - 1) : text[i].t = "pair"
    THEN LET ks == {text[i].k : i \in 2..(Len(text) - 1)}
             last(k) == CHOOSE i \in 2..(Len(text) - 1) :
                            /\ text[i].k = k
                            /\ \A j \in (i + 1)..(Len(text) - 1) : text[j].k # k
         IN  [exc |-> "none", val |-> [k \in ks |-> text[last(k)].v]]
    ELSE [exc |-> "JSONDecodeError", val |-> EmptyDict]

(***************************************************************************)
(* The cache file: missing, not accessible to the process, or a regular    *)
(* file with a text.                                                       *)
(***************************************************************************)
FileOf(kind, text) == [kind |-> kind, text |-> text]

\* _load_cache as it would be without its except clause.
load_cache_unguarded(f) ==
    IF f.kind = "missing" THEN [exc |-> "none", val |-> EmptyDict]
    ELSE IF f.kind = "denied" THEN [exc |-> "PermissionError", val |-> EmptyDict]
    ELSE json_load(f.text)

\* The body of the try of _load_cache.
load_cache_try(f) ==
    IF f.kind = "missing" THEN [exc |-> "none", val |-> EmptyDict]
    ELSE IF f.kind = "denied" THEN [exc |-> "PermissionError", val |-> EmptyDict]
    ELSE json_load(f.text)

\* _load_cache: any exception of the try is logged and {} returned.
_load_cache(f) ==
    LET r == load_cache_try(f) IN
    IF r.exc # "none" THEN [exc |-> "none", val |-> EmptyDict] ELSE r

\* The try of _save_cache as it would be with the file opened to append.
save_cache_try_appends(f, credentials, io, n) ==
    IF f.kind = "denied" \/ io = "open_fails"
    THEN [exc |-> "OSError", file |-> f]
    ELSE IF io = "write_fails"
    THEN [exc |-> "OSError",
          file |-> FileOf("regular", f.text \o SubSeq(json_dump(credentials), 1, n))]
    ELSE [exc |-> "none", file |-> FileOf("regular", f.text \o json_dump(credentials))]

\* The body of the try of _save_cache.  io is what the file system does with
\* this write: "ok", "open_fails" (the file is left as it is) or
\* "write_fails" after n chunks (the file was truncated by the open).
save_cache_try(f, credentials, io, n) ==
    IF f.kind = "denied" \/ io = "open_fails"
    THEN [exc |-> "OSError", file |-> f]
    ELSE IF io = "write_fails"
    THEN [exc |-> "OSError",
          file |-> FileOf("regular", SubSeq(json_dump(credentials), 1, n))]
    ELSE [exc |-> "none", file |-> FileOf("regular", json_dump(credentials))]

\* _save_cache as it would be without its except clause.
save_cache_raising(f, credentials, io, n) ==
    IF f.kind = "denied" \/ io = "open_fails"
    THEN [exc |-> "OSError", file |-> f]
    ELSE IF io = "write_fails"
    THEN [exc |-> "OSError",
          file |-> FileOf("regular", SubSeq(json_dump(credentials), 1, n))]
    ELSE [exc |-> "none", file |-> FileOf("regular", json_dump(credentials))]

\* _save_cache: any exception of the try is logged and swallowed.
_save_cache(f, credentials, io, n) ==
    LET r == save_cache_try(f, credentials, io, n) IN
    [exc |-> "none", file |-> r.file]

(***************************************************************************)
(* The validity check.                                                     *)
(***************************************************************************)
\* The try of _are_credentials_valid as it would be with <= for <.
are_credentials_valid_try_le(credentials, t) ==
    IF "Expiration" \notin DOMAIN credentials
    THEN [exc |-> "KeyError", val |-> FALSE]
    ELSE LET expiration == strptime(credentials["Expiration"]) IN
         IF expiration.exc # "none"
         THEN [exc |-> expiration.exc, val |-> FALSE]
         ELSE [exc |-> "none",
               val |-> t + buffer_time <= timestamp(expiration.val)]

\* The try of _are_credentials_valid as it would be without the buffer.
are_credentials_valid_try_no_buffer(credentials, t) ==
    IF "Expiration" \notin DOMAIN credentials
    THEN [exc |-> "KeyError", val |-> FALSE]
    ELSE LET expiration == strptime(credentials["Expiration"]) IN
         IF expiration.exc # "none"
         THEN [exc |-> expiration.exc, val |-> FALSE]
         ELSE [exc |-> "none", val |-> t < timestamp(expiration.val)]

\* The body of the try of _are_credentials_valid.
are_credentials_valid_try(credentials, t) ==
    IF "Expiration" \notin DOMAIN credentials
    THEN [exc |-> "KeyError", val |-> FALSE]
    ELSE LET expiration == strptime(credentials["Expiration"]) IN
         IF expiration.exc # "none"
         THEN [exc |-> expiration.exc, val |-> FALSE]
         ELSE [exc |-> "none",
               val |-> t + buffer_time < timestamp(expiration.val)]

\* _are_credentials_valid as it would be without its except clause.
are_credentials_valid_raising(credentials, t) ==
    IF DOMAIN credentials = {} THEN [exc |-> "none", val |-> FALSE]
    ELSE IF "Expiration" \notin DOMAIN credentials
    THEN [exc |-> "KeyError", val |-> FALSE]
    ELSE IF strptime(credentials["Expiration"]).exc # "none"
    THEN [exc |-> "ValueError", val |-> FALSE]
    ELSE [exc |-> "none",
          val |-> t + buffer_time
                    < timestamp(strptime(credentials["Expiration"]).val)]

\* _are_credentials_valid(credentials) at clock time t.
_are_credentials_valid(credentials, t) ==
    IF DOMAIN credentials = {} THEN [exc |-> "none", val |-> FALSE]
    ELSE LET r == are_credentials_valid_try(credentials, t) IN
         IF r.exc # "none" THEN [exc |-> "none", val |-> FALSE] ELSE r


(***************************************************************************)
(* The environment's inputs: what the metadata service answers, what the   *)
(* cache file holds at construction, what the file system does on a write. *)
(***************************************************************************)
Tokens == {"tokA", "tokB"}

\* The text of the role listing: one role name per line.
RoleTexts == {<<"roleA">>, <<"roleA", "roleB">>}

\* requests raises Timeout or ConnectionError, raise_for_status HTTPError.
HttpErrors == {"Timeout", "ConnectionError", "HTTPError"}

WriteOutcomes == {"ok", "open_fails", "write_fails"}

Rec(id, e) ==
    [AccessKeyId |-> <<"A", id>>, SecretAccessKey |-> <<"S", id>>,
     Token |-> <<"T", id>>, Expiration |-> e]

Without(d, k) == [x \in DOMAIN d \ {k} |-> d[x]]

With(d, k, v) == [x \in DOMAIN d \cup {k} |-> IF x = k THEN v ELSE d[x]]

\* Expirations around the clock's range and around the buffer after it.
ExpNear == {IsoText(1970, 1, 1, 0, mi, s) : mi \in {0, 15}, s \in 0..(MaxNow + 1)}

ExpFar == IsoText(2037, 1, 1, 0, 0, 0)

\* Texts strptime rejects: a leap second, the 30th of February, month 13,
\* a blank for the T, no text.
ExpBad ==
    {IsoText(1970, 1, 1, 0, 15, 60), IsoText(2037, 2, 30, 0, 0, 0),
     IsoText(2037, 13, 1, 0, 0, 0),
     [ExpFar EXCEPT ![11] = " "], <<>>}

\* The JSON bodies the credentials request can be answered with: a record
\* that expires soon, one that expires late (with a field more, as the
\* service sends), one with an Expiration strptime rejects, one without
\* Token, and the empty object.
CredBodies ==
    {Rec("1", IsoText(1970, 1, 1, 0, 15, 1)),
     With(Rec("2", ExpFar), "Code", <<"o", "k">>),
     Rec("3", IsoText(2037, 13, 1, 0, 0, 0)),
     Without(Rec("4", ExpFar), "Token"),
     EmptyDict}

\* The records a cache file can hold at construction.
CachedRecords ==
    {Rec("0", e) : e \in ExpNear \cup {ExpFar} \cup ExpBad}
    \cup {Without(Rec("0", ExpFar), "Token"),
          Without(Rec("0", ExpFar), "Expiration"), EmptyDict}

\* The cache files at construction: none, one the process cannot open, an
\* empty one, the dump of a record, a dump cut short.
InitialFiles ==
    {FileOf("missing", <<>>), FileOf("denied", <<>>), FileOf("regular", <<>>)}
    \cup {FileOf("regular", json_dump(r)) : r \in CachedRecords}
    \cup {FileOf("regular", SubSeq(json_dump(Rec("0", ExpFar)), 1, n)) : n \in 1..5}

\* The other instances of the program that write the same cache file.
Writers == {"w1"}

\* The records those instances save: the bodies with the longest and with
\* the shortest dump.
OtherBodies == {b \in CredBodies : "Code" \in DOMAIN b \/ b = EmptyDict}

NotWriting == [open |-> FALSE, text |-> <<>>]

\* The text of a file after `new` is written at its start.
Overwrite(old, new) == new \o SubSeq(old, Len(new) + 1, Len(old))

(***************************************************************************)
(* The manager.                                                            *)
(***************************************************************************)
VARIABLES
    now,        \* the clock: datetime.now(timezone.utc).timestamp()
    file,       \* the cache file at self.cache_file
    cache,      \* self.cache
    op,         \* the method the caller called last
    pc,         \* where that call stands: "idle" once it has ended, else the
                \* metadata request it is blocked on
    token,      \* get_credentials' local token
    role_name,  \* get_credentials' local role_name
    reqs,       \* the metadata requests the call has issued, in order
    ret,        \* what get_credentials returned
    exc,        \* the exception get_credentials (or __init__) raised, or "none"
    env,        \* how get_environment_vars ended: its exception, its mapping
    cache0,     \* self.cache when the call began
    file0,      \* the cache file when the call began
    chk,        \* the validity check the call made: its clock and result
    resps,      \* the metadata service's answers to the call's requests:
                \* "ok", or the exception the request ended with
    body,       \* the JSON body of the credentials response of the call
    save_io,    \* what the file system did with the call's cache write
    got_token,  \* the text of the answer to the call's token request
    got_role,   \* the text of the answer to the call's role request
    others      \* the other instances that share the cache file: for each,
                \* the text it has still to write to the file it has opened

vars ==
    <<now, file, cache, op, pc, token, role_name, reqs, ret, env, exc,
      cache0, file0, chk, resps, body, save_io, got_token, got_role, others>>

Methods == {"get_credentials", "get_environment_vars"}

Request(kind, tok, role) ==
    [kind |-> kind, token |-> tok, role |-> role,
     ttl |-> IF kind = "token" THEN token_ttl ELSE 0]

\* The dict get_environment_vars builds from the record get_credentials
\* returned; a missing key raises KeyError.
environment_vars(credentials) ==
    IF {"AccessKeyId", "SecretAccessKey", "Token"} \subseteq DOMAIN credentials
    THEN [exc |-> "none",
          val |-> [AWS_ACCESS_KEY_ID |-> credentials["AccessKeyId"],
                   AWS_SECRET_ACCESS_KEY |-> credentials["SecretAccessKey"],
                   AWS_SESSION_TOKEN |-> credentials["Token"]]]
    ELSE [exc |-> "KeyError", val |-> EmptyDict]

NoEnv == [exc |-> "none", val |-> EmptyDict]

\* The call ends with get_credentials returning credentials; a caller in
\* get_environment_vars goes on to build its mapping.
Returns(o, credentials) ==
    /\ pc' = "idle"
    /\ token' = ""
    /\ role_name' = <<>>
    /\ ret' = credentials
    /\ exc' = "none"
    /\ env' = IF o = "get_environment_vars"
              THEN environment_vars(credentials) ELSE NoEnv

\* The call ends with get_credentials raising e, which get_environment_vars
\* lets through.
Raises(o, e) ==
    /\ pc' = "idle"
    /\ token' = ""
    /\ role_name' = <<>>
    /\ ret' = EmptyDict
    /\ exc' = e
    /\ env' = IF o = "get_environment_vars"
              THEN [exc |-> e, val |-> EmptyDict] ELSE NoEnv

\* __init__: self.cache = self._load_cache().
Init ==
    /\ now = 0
    /\ file \in InitialFiles
    /\ LET r == _load_cache(file) IN cache = r.val /\ exc = r.exc
    /\ op = "__init__"
    /\ pc = "idle"
    /\ token = ""
    /\ role_name = <<>>
    /\ reqs = <<>>
    /\ ret = EmptyDict
    /\ env = NoEnv
    /\ cache0 = cache
    /\ file0 = file
    /\ chk = [now |-> 0, val |-> FALSE, exc |-> "none"]
    /\ resps = <<>>
    /\ body = EmptyDict
    /\ save_io = "none"
    /\ got_token = ""
    /\ got_role = <<>>
    /\ others = [w \in Writers |-> NotWriting]

\* A call of method o on the constructed manager begins, v being what the
\* validity check of the held record gives at the clock's time.
Begins(o, v) ==
    /\ ~(op = "__init__" /\ exc # "none")
    /\ op' = o
    /\ cache0' = cache
    /\ file0' = file
    /\ chk' = [now |-> now, val |-> v.val, exc |-> v.exc]
    /\ resps' = <<>>
    /\ body' = EmptyDict
    /\ save_io' = "none"
    /\ got_token' = ""
    /\ got_role' = <<>>
    /\ UNCHANGED others

\* The cache hit as it would be were the cache file read again on each call.
GetCredentialsHitReloads ==
    /\ pc = "idle"
    /\ LET v == _are_credentials_valid(cache, now) IN
       /\ v.exc = "none" /\ v.val
       /\ \E o \in Methods :
           /\ Begins(o, v)
           /\ reqs' = <<>>
           /\ cache' = _load_cache(file).val
           /\ Returns(o, cache')
    /\ UNCHANGED <<now, file>>

\* get_credentials, the held record valid: it is returned.
GetCredentialsHit ==
    /\ pc = "idle"
    /\ LET v == _are_credentials_valid(cache, now) IN
       /\ v.exc = "none" /\ v.val
       /\ \E o \in Methods :
           /\ Begins(o, v)
           /\ reqs' = <<>>
           /\ Returns(o, cache)
    /\ UNCHANGED <<now, file, cache>>

\* get_credentials, the held record not valid: _get_imdsv2_token sends its
\* request and waits for the answer.  Were the check to raise, the call
\* would end here with its exception.
\* The miss as it would be handled were the file read again before the
\* handshake and a valid record found there served.
GetCredentialsMissReloads ==
    /\ pc = "idle"
    /\ LET v == _are_credentials_valid(cache, now)
           l == _load_cache(file).val
           w == _are_credentials_valid(l, now)
       IN
       /\ ~(v.exc = "none" /\ v.val)
       /\ \E o \in Methods :
           /\ Begins(o, v)
           /\ IF w.exc = "none" /\ w.val
              THEN reqs' = <<>> /\ cache' = l /\ Returns(o, l)
              ELSE /\ reqs' = <<Request("token", "", <<>>)>>
                   /\ pc' = "token"
                   /\ ret' = EmptyDict /\ exc' = "none" /\ env' = NoEnv
                   /\ UNCHANGED <<token, role_name, cache>>
    /\ UNCHANGED <<now, file>>

GetCredentialsMiss ==
    /\ pc = "idle"
    /\ LET v == _are_credentials_valid(cache, now) IN
       /\ ~(v.exc = "none" /\ v.val)
       /\ \E o \in Methods :
           /\ Begins(o, v)
           /\ IF v.exc # "none"
              THEN reqs' = <<>> /\ Raises(o, v.exc)
              ELSE /\ reqs' = <<Request("token", "", <<>>)>>
                   /\ pc' = "token"
                   /\ ret' = EmptyDict /\ exc' = "none" /\ env' = NoEnv
                   /\ UNCHANGED <<token, role_name>>
    /\ UNCHANGED <<now, file, cache>>

\* The token request is answered with a token: _get_role_name sends its
\* request with it and waits.
TokenOk ==
    /\ pc = "token"
    /\ \E t \in Tokens :
        /\ got_token' = t
        /\ token' = t
        /\ reqs' = Append(reqs, Request("role", t, <<>>))
    /\ pc' = "role"
    /\ resps' = Append(resps, "ok")
    /\ UNCHANGED <<now, file, cache, op, role_name, ret, env, exc,
                   cache0, file0, chk, body, save_io, got_role, others>>

\* The failure of the token request as it would be with a fallback to the
\* held record.
TokenFailServesHeld ==
    /\ pc = "token"
    /\ \E e \in HttpErrors : resps' = Append(resps, e) /\ Returns(op, cache)
    /\ UNCHANGED <<now, file, cache, op, reqs, cache0, file0, chk, body, save_io>>
    /\ UNCHANGED <<got_token, got_role, others>>

\* The failure of the token request as it would be with a retry.
TokenFailRetries ==
    /\ pc = "token"
    /\ \E e \in HttpErrors : resps' = Append(resps, e)
    /\ reqs' = Append(reqs, Request("token", "", <<>>))
    /\ UNCHANGED <<now, file, cache, op, pc, token, role_name, ret, env, exc,
                   cache0, file0, chk, body, save_io>>
    /\ UNCHANGED <<got_token, got_role, others>>

\* The token request fails: the exception is logged and raised again.
TokenFail ==
    /\ pc = "token"
    /\ \E e \in HttpErrors : resps' = Append(resps, e) /\ Raises(op, e)
    /\ UNCHANGED <<now, file, cache, op, reqs, cache0, file0, chk, body, save_io>>
    /\ UNCHANGED <<got_token, got_role, others>>

\* The answer to the role request as it would be handled were the
\* credentials request sent without the token.
RoleOkDropsToken ==
    /\ pc = "role"
    /\ \E r \in RoleTexts :
        /\ got_role' = r
        /\ role_name' = r
        /\ reqs' = Append(reqs, Request("credentials", "", role_name'))
    /\ pc' = "credentials"
    /\ resps' = Append(resps, "ok")
    /\ UNCHANGED <<now, file, cache, op, token, ret, env, exc,
                   cache0, file0, chk, body, save_io, got_token, others>>

\* The role request is answered: _get_credentials sends its request for the
\* text of the answer and waits.
RoleOk ==
    /\ pc = "role"
    /\ \E r \in RoleTexts :
        /\ got_role' = r
        /\ role_name' = r
        /\ reqs' = Append(reqs, Request("credentials", token, role_name'))
    /\ pc' = "credentials"
    /\ resps' = Append(resps, "ok")
    /\ UNCHANGED <<now, file, cache, op, token, ret, env, exc,
                   cache0, file0, chk, body, save_io, got_token, others>>

\* The failure of the role request as it would be handled were the handshake
\* started again from its token request.
RoleFailRestarts ==
    /\ pc = "role"
    /\ pc' = "token"
    /\ reqs' = <<Request("token", "", <<>>)>>
    /\ resps' = <<>>
    /\ token' = ""
    /\ role_name' = <<>>
    /\ got_token' = ""
    /\ got_role' = <<>>
    /\ UNCHANGED <<now, file, cache, op, ret, env, exc,
                   cache0, file0, chk, body, save_io, others>>

RoleFail ==
    /\ pc = "role"
    /\ \E e \in HttpErrors : resps' = Append(resps, e) /\ Raises(op, e)
    /\ UNCHANGED <<now, file, cache, op, reqs, cache0, file0, chk, body, save_io>>
    /\ UNCHANGED <<got_token, got_role, others>>

\* The success of the handshake as it would be without self.cache = credentials.
CredentialsOkKeepsHeld ==
    /\ pc = "credentials"
    /\ \E credentials \in CredBodies, io \in WriteOutcomes :
       \E n \in {0, Len(json_dump(credentials)) - 1} :
        /\ io # "write_fails" => n = 0
        /\ resps' = Append(resps, "ok")
        /\ body' = credentials
        /\ save_io' = IF file.kind = "denied" THEN "open_fails" ELSE io
        /\ op' = op
        /\ LET saved == _save_cache(file, credentials, io, n) IN
           /\ file' = saved.file
           /\ cache' = cache
           /\ IF saved.exc # "none"
              THEN Raises(op, saved.exc)
              ELSE Returns(op, credentials)
    /\ UNCHANGED <<now, reqs, cache0, file0, chk>>
    /\ UNCHANGED <<got_token, got_role, others>>

\* The credentials request is answered with a JSON body: it is saved to the
\* cache file, becomes the held record and is returned.  Were _save_cache to
\* raise, get_credentials would raise that before the assignment.
CredentialsOk ==
    /\ pc = "credentials"
    /\ \E credentials \in CredBodies, io \in WriteOutcomes :
       \E n \in {0, Len(json_dump(credentials)) - 1} :
        /\ io # "write_fails" => n = 0
        /\ resps' = Append(resps, "ok")
        /\ body' = credentials
        /\ save_io' = IF file.kind = "denied" THEN "open_fails" ELSE io
        /\ op' = op
        /\ LET saved == _save_cache(file, credentials, io, n) IN
           /\ file' = saved.file
           /\ IF saved.exc # "none"
              THEN cache' = cache /\ Raises(op, saved.exc)
              ELSE cache' = credentials /\ Returns(op, credentials)
    /\ UNCHANGED <<now, reqs, cache0, file0, chk>>
    /\ UNCHANGED <<got_token, got_role, others>>

\* The credentials request fails, or its body is no JSON (response.json()
\* raises): the exception is logged and raised again.
CredentialsFail ==
    /\ pc = "credentials"
    /\ \E e \in HttpErrors \cup {"JSONDecodeError"} :
        resps' = Append(resps, e) /\ Raises(op, e)
    /\ UNCHANGED <<now, file, cache, op, reqs, cache0, file0, chk, body, save_io>>
    /\ UNCHANGED <<got_token, got_role, others>>

\* Time passes.
Tick ==
    /\ now < MaxNow
    /\ now' = now + 1
    /\ UNCHANGED <<file, cache, op, pc, token, role_name, reqs, ret, env, exc,
                   cache0, file0, chk, resps, body, save_io>>
    /\ UNCHANGED <<got_token, got_role, others>>

\* Another instance opens the cache file to save a record: the open
\* truncates the file, the record's dump waits in the instance's buffer.
OtherOpens ==
    /\ file.kind # "denied"
    /\ \E w \in Writers, b \in OtherBodies :
        /\ ~others[w].open
        /\ others' = [others EXCEPT ![w] = [open |-> TRUE, text |-> json_dump(b)]]
    /\ file' = FileOf("regular", <<>>)
    /\ UNCHANGED <<now, cache, op, pc, token, role_name, reqs, ret, env, exc,
                   cache0, file0, chk, resps, body, save_io, got_token, got_role>>

\* Another instance closes the file it opened: its buffer is written at the
\* start of the file, all of it or, the write failing, all but the last
\* chunk.
OtherWrites ==
    /\ \E w \in Writers :
        /\ others[w].open
        /\ \E n \in {Len(others[w].text) - 1, Len(others[w].text)} :
            file' = FileOf("regular",
                           Overwrite(file.text, SubSeq(others[w].text, 1, n)))
        /\ others' = [others EXCEPT ![w] = NotWriting]
    /\ UNCHANGED <<now, cache, op, pc, token, role_name, reqs, ret, env, exc,
                   cache0, file0, chk, resps, body, save_io, got_token, got_role>>

\* The manager is constructed anew (the process starts again) over the
\* cache file as it is.
Construct ==
    /\ pc = "idle"
    /\ LET r == _load_cache(file) IN
       cache' = r.val /\ exc' = r.exc /\ cache0' = r.val
    /\ op' = "__init__"
    /\ file0' = file
    /\ reqs' = <<>>
    /\ ret' = EmptyDict
    /\ env' = NoEnv
    /\ chk' = [now |-> 0, val |-> FALSE, exc |-> "none"]
    /\ resps' = <<>>
    /\ body' = EmptyDict
    /\ save_io' = "none"
    /\ got_token' = ""
    /\ got_role' = <<>>
    /\ UNCHANGED <<now, file, pc, token, role_name, others>>

Next ==
    \/ GetCredentialsHit
    \/ GetCredentialsMiss
    \/ TokenOk
    \/ TokenFail
    \/ RoleOk
    \/ RoleFail
    \/ CredentialsOk
    \/ CredentialsFail
    \/ Tick

Spec == Init /\ [][Next]_vars

\* A request that has been sent is answered: each is made with timeout=2, so
\* the service's answer or the Timeout arrives.
Answered ==
    \/ TokenOk
    \/ TokenFail
    \/ RoleOk
    \/ RoleFail
    \/ CredentialsOk
    \/ CredentialsFail

SpecLive == Init /\ [][Next]_vars /\ WF_vars(Answered)

\* The manager among other instances that share its cache file, at one
\* time of the clock.
NextShared ==
    \/ GetCredentialsHit
    \/ GetCredentialsMiss
    \/ TokenOk
    \/ TokenFail
    \/ RoleOk
    \/ RoleFail
    \/ CredentialsOk
    \/ CredentialsFail
    \/ OtherOpens
    \/ OtherWrites
    \/ Construct

SpecShared == Init /\ [][NextShared]_vars


(***************************************************************************)
(* Properties.                                                             *)
(***************************************************************************)
\* The last call has ended.
Ended == pc = "idle" /\ op \in Methods

\* The metadata service answered all three requests of the call.
AllOk == resps = <<"ok", "ok", "ok">>

WriteFailed == save_io \in {"open_fails", "write_fails"}

\* The instant each well-formed Expiration text of the inputs denotes, in
\* seconds since 1970-01-01T00:00:00Z, read off the text's fields.
Instants ==
    {[text |-> IsoText(1970, 1, 1, 0, mi, s), at |-> 60 * mi + s] :
        mi \in {0, 15}, s \in 0..(MaxNow + 1)}
    \cup {[text |-> ExpFar, at |-> 2114380800]}

Denotes(e) == \E i \in Instants : i.text = e

InstantOf(e) == (CHOOSE i \in Instants : i.text = e).at

\* Record r expires more than 900 seconds after time t.
BeyondBuffer(r, t) ==
    /\ "Expiration" \in DOMAIN r
    /\ Denotes(r["Expiration"])
    /\ t + 900 < InstantOf(r["Expiration"])

\* Record r is empty, has no Expiration, or has one that is no timestamp.
NoExpiry(r) ==
    \/ r = EmptyDict
    \/ "Expiration" \notin DOMAIN r
    \/ r["Expiration"] \in ExpBad

RequestKinds == [i \in 1..Len(reqs) |-> reqs[i].kind]

RequiredKeys == {"AccessKeyId", "SecretAccessKey", "Token", "Expiration"}

\* C1: for a held record whose Expiration denotes the instant E, the
\* validity check made at time T gives true exactly when T + 900 < E.
C1_ValidIffBeyondBuffer ==
    (op \in Methods /\ "Expiration" \in DOMAIN cache0
        /\ Denotes(cache0["Expiration"]))
    => (chk.exc = "none"
        /\ (chk.val <=> chk.now + 900 < InstantOf(cache0["Expiration"])))

\* C1 witness: a record that expires exactly 900 seconds after the time of
\* the check has been checked and found invalid.
C1_Witness ==
    /\ op \in Methods
    /\ "Expiration" \in DOMAIN cache0
    /\ cache0["Expiration"] = IsoText(1970, 1, 1, 0, 15, 1)
    /\ chk.now = 1
    /\ ~chk.val

\* C2: a call made while the held record is valid returns that record,
\* issues no metadata request and leaves the held record and the cache file
\* as they were.
C2_HitReturnsHeld ==
    (Ended /\ BeyondBuffer(cache0, chk.now))
    => (exc = "none" /\ ret = cache0 /\ reqs = <<>> /\ resps = <<>>
        /\ cache = cache0 /\ file = file0)

\* C2 witness: a call served from the held record, later than time 0, with
\* a cache file that does not hold that record.
C2_Witness ==
    /\ Ended
    /\ BeyondBuffer(cache0, chk.now)
    /\ chk.now > 0
    /\ ret = cache0
    /\ _load_cache(file).val # cache

\* C3 as stated: a call that finds the held record invalid and gets all
\* three answers issues one token, one role and one credentials request,
\* returns the body of the credentials response, holds it in memory and has
\* written it to the cache file.
C3_Original ==
    (Ended /\ ~BeyondBuffer(cache0, chk.now) /\ AllOk)
    => (RequestKinds = <<"token", "role", "credentials">>
        /\ exc = "none" /\ ret = body /\ cache = body
        /\ file = FileOf("regular", json_dump(body)))

\* C3 as amended: the same, the cache file holding the record when the
\* write did not fail.
C3_FetchReplacesHeld ==
    (Ended /\ ~BeyondBuffer(cache0, chk.now) /\ AllOk)
    => (RequestKinds = <<"token", "role", "credentials">>
        /\ exc = "none" /\ ret = body /\ cache = body
        /\ (save_io = "ok" => file = FileOf("regular", json_dump(body))))

\* C3 witness: a held record inside the buffer has been replaced by a
\* fetched one, written to the file.
C3_Witness ==
    /\ Ended /\ AllOk
    /\ save_io = "ok"
    /\ "Expiration" \in DOMAIN cache0
    /\ Denotes(cache0["Expiration"])
    /\ ~BeyondBuffer(cache0, chk.now)
    /\ body # EmptyDict
    /\ cache = body
    /\ cache # cache0

\* C4: a call in which a metadata request failed ended with an exception,
\* returned nothing, and left the held record and the cache file as they
\* were when it began.
C4_FailureLeavesAll ==
    (Ended /\ \E i \in 1..Len(resps) : resps[i] # "ok")
    => (exc # "none" /\ ret = EmptyDict /\ cache = cache0 /\ file = file0)

\* C4 witness: the token request timed out while a stale record was held.
C4_Witness ==
    /\ Ended
    /\ resps = <<"Timeout">>
    /\ cache0 # EmptyDict
    /\ file0.kind = "regular"
    /\ exc = "Timeout"

\* C5: a call whose credentials response lacks a required field fails.
C5_MalformedIsRejected ==
    (Ended /\ AllOk /\ ~(RequiredKeys \subseteq DOMAIN body)) => exc # "none"

\* C6: for a held record that is empty, has no Expiration or has one that
\* is no timestamp, the validity check gives false without raising and the
\* call goes on to the token request.
C6_NoExpiryIsInvalid ==
    (op \in Methods /\ NoExpiry(cache0))
    => (chk.exc = "none" /\ ~chk.val
        /\ Len(reqs) >= 1 /\ reqs[1].kind = "token")

\* C6 witness: a call that holds a record with an Expiration strptime
\* rejects waits for the answer to its token request.
C6_Witness ==
    /\ op \in Methods
    /\ "Expiration" \in DOMAIN cache0
    /\ cache0["Expiration"] \in ExpBad
    /\ pc = "token"

\* C7: after a call has saved a record, the write succeeding, loading the
\* cache file gives that record and nothing of what the file held before.
C7_SaveThenLoad ==
    (Ended /\ AllOk /\ save_io = "ok")
    => _load_cache(file) = [exc |-> "none", val |-> body]

\* C7 witness: a record has been saved over the dump of another record.
C7_Witness ==
    /\ Ended /\ AllOk
    /\ save_io = "ok"
    /\ body # EmptyDict
    /\ file0.kind = "regular"
    /\ json_load(file0.text).exc = "none"
    /\ json_load(file0.text).val \notin {EmptyDict, body}

\* The file holds the dump of a record.
IsRecordDump(f) ==
    f.kind = "regular" /\ \E r \in CachedRecords : f.text = json_dump(r)

\* C8: construction never raises, and it leaves the empty record in memory
\* when the cache file is missing, cannot be opened or holds no JSON object.
C8_LoadNeverRaises ==
    op = "__init__"
    => (exc = "none" /\ (~IsRecordDump(file) => cache = EmptyDict))

\* C8 witness: a manager constructed over a cache file cut short.
C8_Witness ==
    /\ op = "__init__"
    /\ file.kind = "regular"
    /\ Len(file.text) > 0
    /\ ~IsRecordDump(file)
    /\ cache = EmptyDict
    /\ exc = "none"

\* C9: a call whose handshake succeeds and whose cache write fails returns
\* the fetched record without an exception and holds it in memory; and the
\* call that follows it, made while that record is valid, returns it
\* without a metadata request.
C9_WriteFailureIsHarmless ==
    [][/\ (pc = "credentials" /\ pc' = "idle" /\ AllOk' /\ WriteFailed')
            => (exc' = "none" /\ ret' = body' /\ cache' = body')
       /\ (Ended /\ AllOk /\ WriteFailed /\ now' = now
              /\ BeyondBuffer(body, now))
            => (pc' = "idle" /\ exc' = "none" /\ ret' = body
                /\ reqs' = <<>> /\ cache' = body)]_vars

\* C9 witness: a fetched record is held and was returned although its
\* write failed after the file was truncated.
C9_Witness ==
    /\ Ended /\ AllOk
    /\ save_io = "write_fails"
    /\ exc = "none"
    /\ ret = body
    /\ cache = body
    /\ BeyondBuffer(body, now)

EnvKeys == {"AWS_ACCESS_KEY_ID", "AWS_SECRET_ACCESS_KEY", "AWS_SESSION_TOKEN"}

\* C10: when get_credentials returns a record to get_environment_vars, the
\* method returns a mapping with exactly the three AWS_ keys, holding the
\* record's AccessKeyId, SecretAccessKey and Token.
C10_EnvironmentMapping ==
    (Ended /\ op = "get_environment_vars" /\ exc = "none")
    => (/\ env.exc = "none"
        /\ DOMAIN env.val = EnvKeys
        /\ {"AccessKeyId", "SecretAccessKey", "Token"} \subseteq DOMAIN ret
        /\ env.val["AWS_ACCESS_KEY_ID"] = ret["AccessKeyId"]
        /\ env.val["AWS_SECRET_ACCESS_KEY"] = ret["SecretAccessKey"]
        /\ env.val["AWS_SESSION_TOKEN"] = ret["Token"])


\* C11: the held record is empty or has all four fields.
C11_HeldEmptyOrComplete ==
    cache = EmptyDict \/ RequiredKeys \subseteq DOMAIN cache

\* C12: a call that fails ends with a CredentialFetchError, and with no
\* other kind of exception.
C12_FailureIsFetchError ==
    (Ended /\ exc # "none") => exc = "CredentialFetchError"

\* C13 as stated: every record get_credentials returns expires more than
\* 900 seconds after the time of the call.
C13_Original ==
    (Ended /\ exc = "none") => BeyondBuffer(ret, chk.now)

\* C13 as amended: every record get_credentials returns from the cache,
\* without a metadata request, expires more than 900 seconds after the
\* time of the call.
C13_ServedHasGrace ==
    (Ended /\ exc = "none" /\ reqs = <<>>) => BeyondBuffer(ret, chk.now)

\* C13 witness: a record that expires 901 seconds after the time of the
\* call has been served from the cache.
C13_Witness ==
    /\ Ended /\ exc = "none" /\ reqs = <<>>
    /\ BeyondBuffer(ret, chk.now)
    /\ InstantOf(ret["Expiration"]) = chk.now + 901

HandshakeOrder == <<"token", "role", "credentials">>

\* C14: the requests of a call are a token request, then a role request,
\* then a credentials request, each sent only after the one before it was
\* answered successfully; a failed request is the call's last, so a call
\* that fails at step k has issued k requests.
C14_SequentialNoRetry ==
    /\ Len(reqs) <= 3
    /\ \A i \in 1..Len(reqs) : reqs[i].kind = HandshakeOrder[i]
    /\ Len(reqs) = Len(resps) + (IF pc = "idle" THEN 0 ELSE 1)
    /\ \A i \in 1..Len(resps) :
          resps[i] # "ok" => (i = Len(resps) /\ Len(reqs) = i /\ pc = "idle")

\* C14 witness: a call that failed at the role request has issued two
\* requests.
C14_Witness ==
    /\ Ended
    /\ resps = <<"ok", "HTTPError">>
    /\ RequestKinds = <<"token", "role">>


\* C15: the first request of a handshake is a token request that carries no
\* token; the role request and the credentials request carry the token that
\* request was answered with, and the credentials request names the role
\* text the role request was answered with; between calls no token and no
\* role is kept.
C15_OneTokenPerHandshake ==
    /\ Len(reqs) >= 1 => reqs[1] = Request("token", "", <<>>)
    /\ Len(reqs) >= 2 => reqs[2].token = got_token
    /\ Len(reqs) >= 3 => (reqs[3].token = got_token /\ reqs[3].role = got_role)
    /\ pc = "idle" => (token = "" /\ role_name = <<>>)

\* C15 witness: a call waits for its credentials, asked for with the second
\* of the tokens the service hands out.
C15_Witness ==
    /\ pc = "credentials"
    /\ got_token = "tokB"
    /\ reqs[2].token = "tokB"
    /\ reqs[3].token = "tokB"
    /\ reqs[3].role = got_role

\* C16: the credentials request names the first line of the role listing.
C16_FirstRoleOnly ==
    Len(reqs) >= 3 => reqs[3].role = <<got_role[1]>>


\* The file is a regular file whose text is exactly one dumped record.
WholeDump(f) ==
    /\ f.kind = "regular"
    /\ \E r \in CachedRecords \cup CredBodies : f.text = json_dump(r)

\* C17: with other instances truncating and rewriting the same file at any
\* moment, a construction never raises; over a file that is not one whole
\* dumped record (cut short, or one dump laid over another) it comes up
\* with no held record, and the first call after it is a miss that starts
\* a handshake.
C17_PartialFileIsMiss ==
    /\ [](op = "__init__" =>
            /\ exc = "none"
            /\ ~WholeDump(file0) => cache = EmptyDict)
    /\ [][(op = "__init__" /\ ~WholeDump(file0) /\ op' \in Methods) =>
            (pc' = "token" /\ reqs' = <<Request("token", "", <<>>)>>)]_vars

\* C17 witness: a manager constructed over a file in which the short dump of
\* one instance lies over the longer dump of another.
C17_Witness ==
    /\ op = "__init__"
    /\ file0.kind = "regular"
    /\ Len(file0.text) > 2
    /\ file0.text[2].t = "}"
    /\ cache = EmptyDict
    /\ exc = "none"


\* C18: a call that has started ends, whatever the service answers: it
\* never stays waiting and never loops.
C18_CallCompletes ==
    (pc # "idle") ~> (pc = "idle")

\* C18 witness: a call has ended after all three of its requests were
\* answered, the last one with the Timeout.
C18_Witness ==
    /\ Ended
    /\ Len(resps) = 3
    /\ resps[3] = "Timeout"
    /\ exc = "Timeout"


\* C19: with this manager the only writer of the file, the held record
\* equals what loading the file gives: it does after construction, and
\* every step that starts from equality and is not a failed write ends in
\* equality.
C19_HeldEqualsFile ==
    /\ cache = _load_cache(file).val
    /\ [][(cache = _load_cache(file).val /\ ~WriteFailed')
            => cache' = _load_cache(file').val]_vars

\* C19 witness: a handshake has replaced the held record by a body that
\* carries a "Code" field, the write succeeded, and loading the file gives
\* the held record.
C19_Witness ==
    /\ Ended
    /\ AllOk
    /\ save_io = "ok"
    /\ "Code" \in DOMAIN cache
    /\ cache # cache0
    /\ cache = _load_cache(file).val


\* C20: the held record changes only when a manager is constructed or when
\* a handshake of its own succeeds, and then to the fetched body; a call
\* made while the held record is not valid starts a handshake and leaves the
\* held record alone even though the file holds a valid record written by
\* another instance.
C20_FileReadAtConstructionOnly ==
    [][/\ cache' # cache =>
            \/ op' = "__init__"
            \/ (pc = "credentials" /\ pc' = "idle" /\ AllOk' /\ cache' = body')
       /\ ( /\ pc = "idle"
            /\ op' \in Methods
            /\ others' = others
            /\ ~BeyondBuffer(cache, now)
            /\ BeyondBuffer(_load_cache(file).val, now) )
            => (pc' = "token" /\ cache' = cache /\ file' = file)]_vars

\* C20 witness: a manager that still holds the stale record it was
\* constructed with has started a handshake while the file holds a valid
\* record that another instance wrote since.
C20_Witness ==
    /\ pc = "token"
    /\ cache = cache0
    /\ cache0 \in CachedRecords \ (CredBodies \cup {EmptyDict})
    /\ ~BeyondBuffer(cache0, now)
    /\ file0 = file
    /\ "Code" \in DOMAIN _load_cache(file).val
    /\ BeyondBuffer(_load_cache(file).val, now)

=============================================================================
